---- MODULE Spec2Model ----
(***************************************************************************)
(* Model of the weather ingestion pipeline                                 *)
(* (src/src/components/data_ingestion.py, driven by src/main.py).          *)
(*                                                                         *)
(* One coordinator thread runs DataIngestion.__init__ and                  *)
(* initiate_data_ingestion; the ThreadPoolExecutor runs one process_file   *)
(* task per listed file.  The relational store is modelled by the two      *)
(* tables the code touches: weather_data (permanent, unique on             *)
(* (station_id, date)) and temp_weather_data (staging, no constraint).     *)
(*                                                                         *)
(* Numbers: a reading is float(raw) / 10.0.  The model keeps such a value  *)
(* as the integer count of tenths, which denotes the same rational; the    *)
(* physical value -9999 is therefore the tenths count -99990.              *)
(***************************************************************************)
EXTENDS Integers, Sequences, FiniteSets, TLC

\* ------------------------------------------------------------------------
\* Bounds of the model
\* ------------------------------------------------------------------------
MaxRuns == 2

MaxFaults == 1

MaxLines == 2

\* ------------------------------------------------------------------------
\* Program constants
\* ------------------------------------------------------------------------
\* ThreadPoolExecutor(max_workers=4)
max_workers == 4

\* the literal the staged values are compared with
Sentinel == -9999

\* ------------------------------------------------------------------------
\* Raw input: a line is the sequence of its tab-separated fields
\* ------------------------------------------------------------------------
Num(n) == [k |-> "int", v |-> n]

Blank == [k |-> "blank", v |-> 0]

\* nullable column values
Some(x) == [null |-> FALSE, v |-> x]

Null == [null |-> TRUE, v |-> 0]

\* the lines the input files are made of: the example of the format, the
\* same date with other readings, an impossible date, a line of three fields
Lines ==
  { <<Num(19850101), Num(100), Num(-50), Num(-9999)>>,
    <<Num(19850101), Num(-99990), Num(20), Num(0)>>,
    <<Num(19850230), Num(100), Num(-50), Num(0)>>,
    <<Num(19850101), Num(100), Num(-50)>> }

\* file names, as the components between the dots
FileNames == { <<"A", "txt">>, <<"B", "txt">>, <<"A", "v2", "txt">>, <<"B", "csv">> }

\* the listings of the input folder: two stations, one station under two
\* file names, a station next to a file of another kind
FileSets ==
  { {<<"A", "txt">>, <<"B", "txt">>},
    {<<"A", "txt">>, <<"A", "v2", "txt">>},
    {<<"A", "txt">>, <<"B", "csv">>} }

\* f.endswith('.txt')
IsTxt(name) == name[Len(name)] = "txt"

Contents == UNION { [1..n -> Lines] : n \in 0..MaxLines }

\* what a file may hold when n lines are left to hand out; what a file that
\* is never opened holds is left empty
ContentsOf(name, n) ==
  IF IsTxt(name) THEN {c \in Contents : Len(c) <= n} ELSE {<< >>}

\* the folders with the files S holding at most n lines in all
RECURSIVE Folders(_, _)
Folders(S, n) ==
  IF S = {} THEN {[f \in {} |-> << >>]}
  ELSE LET f == CHOOSE x \in S : TRUE
       IN UNION { { (f :> c) @@ d : d \in Folders(S \ {f}, n - Len(c)) } :
                  c \in ContentsOf(f, n) }

\* the folders: one of the listings, holding at most MaxLines lines in all
Directories == UNION { Folders(S, MaxLines) : S \in FileSets }

\* ------------------------------------------------------------------------
\* Pure helpers of process_file
\* ------------------------------------------------------------------------
\* line.strip(): leading and trailing whitespace goes, tabs included, so
\* blank fields at either end of the line disappear with their separators
RECURSIVE LStrip(_)
LStrip(s) == IF s # <<>> /\ Head(s) = Blank THEN LStrip(Tail(s)) ELSE s

RECURSIVE RStrip(_)
RStrip(s) ==
  IF s # <<>> /\ s[Len(s)] = Blank THEN RStrip(SubSeq(s, 1, Len(s) - 1)) ELSE s

\* line.strip().split('\t'); an all-blank line yields the one field ''
StripSplit(line) ==
  LET t == RStrip(LStrip(line)) IN IF t = <<>> THEN <<Blank>> ELSE t

IsLeap(y) == (y % 4 = 0 /\ y % 100 # 0) \/ y % 400 = 0

DaysIn(y, m) ==
  IF m = 2 THEN (IF IsLeap(y) THEN 29 ELSE 28)
  ELSE IF m \in {4, 6, 9, 11} THEN 30 ELSE 31

\* datetime.strptime(date_str, '%Y%m%d').date() on an 8-digit field
DateOk(tok) ==
  /\ tok.k = "int"
  /\ tok.v >= 10000101 /\ tok.v <= 99991231
  /\ LET y == tok.v \div 10000
         m == (tok.v \div 100) % 100
         d == tok.v % 100
     IN m \in 1..12 /\ d >= 1 /\ d <= DaysIn(y, m)

ParseDate(tok) ==
  [year |-> tok.v \div 10000, month |-> (tok.v \div 100) % 100, day |-> tok.v % 100]

\* float(s) succeeds on a numeric field
FloatOk(tok) == tok.k = "int"

\* float(s) / 10.0, kept in tenths
Tenths(tok) == tok.v

\* os.path.basename(file_path).split('.')[0]
StationOf(name) == name[1]

\* the try block of lines 114-118 raises nothing
ParseOk(data) ==
  DateOk(data[1]) /\ FloatOk(data[2]) /\ FloatOk(data[3]) /\ FloatOk(data[4])

\* "x if x != -9999 else None", x being the value already divided by 10
NullIfSentinel(tenths) == IF tenths # Sentinel * 10 THEN Some(tenths) ELSE Null

Key(r) == <<r.station_id, r.date>>

\* the line is one process_file parses without error
ValidLine(line) == Len(StripSplit(line)) = 4 /\ ParseOk(StripSplit(line))

\* the parameter tuple of the INSERT INTO temp_weather_data; rid tells the
\* row apart from every other row: the run, file and line it was staged from
StagedRow(name, data, rid) ==
  [station_id |-> StationOf(name),
   date |-> ParseDate(data[1]),
   max_temp |-> NullIfSentinel(Tenths(data[2])),
   min_temp |-> NullIfSentinel(Tenths(data[3])),
   precipitation |-> NullIfSentinel(Tenths(data[4])),
   rid |-> rid]

\* ------------------------------------------------------------------------
\* State
\* ------------------------------------------------------------------------
VARIABLES
  dir,               \* the input folder: file name -> sequence of lines
  weather_data,      \* rows of the permanent table
  temp_exists,       \* does table temp_weather_data exist
  temp_weather_data, \* rows of the staging table
  existing_records,  \* DataIngestion.existing_records
  pc,                \* where the coordinator thread stands
  files,             \* the listed .txt files, all submitted to the pool
  task,              \* per submitted file: the process_file call
  collected,         \* futures as_completed has yielded
  total_processed,
  total_duplicates,
  run,               \* number of runs started
  faults,            \* failures of the store or the file system so far
  create_status,     \* how the run's CREATE TABLE ended
  merge_status,      \* how the run's INSERT ... SELECT ended
  drop_status,       \* how the run's DROP TABLE ended
  pending_exc,       \* exception propagating in the coordinator
  outcome,           \* how the last ended run left initiate_data_ingestion
  rows_at_start,     \* row count of weather_data when the run started
  prev_clean,        \* the run before the last started one completed,
                     \* having read every file
  stats_exists,      \* does table weather_station_yearly_stats exist
  weather_station_yearly_stats, \* rows of the yearly statistics table
  apc,               \* where the analysis step of main stands
  reflected,         \* DataAnalysis.metadata.tables has the statistics table
  yearly_stats,      \* the result of calculate_yearly_stats
  rest,              \* the stats the loop of store_yearly_stats has yet to take
  new_records,       \* the records added to the session, not yet committed
  skipped_records,
  returned,          \* what the last call of store_yearly_stats handed back
  passes,            \* number of analysis passes started
  stats_at_start,    \* the statistics table when the pass started
  response,          \* the result of the last call of the weather service
  other_pc,          \* where a second, concurrent ingestion run stands
  other_existing     \* existing_records of that second run

vars == <<dir, weather_data, temp_exists, temp_weather_data,
          existing_records, pc, files, task, collected, total_processed,
          total_duplicates, run, faults, create_status, merge_status,
          drop_status, pending_exc, outcome, rows_at_start, prev_clean,
          stats_exists, weather_station_yearly_stats, apc, reflected,
          yearly_stats, rest, new_records, skipped_records, returned, passes,
          stats_at_start, response, other_pc, other_existing>>

store == <<weather_data, temp_exists, temp_weather_data>>

totals == <<total_processed, total_duplicates>>

history == <<outcome, rows_at_start, prev_clean>>

\* the state of the analysis step
analysis == <<stats_exists, weather_station_yearly_stats, apc, reflected,
              yearly_stats, rest, new_records, skipped_records, returned,
              passes, stats_at_start>>

\* the state of the second ingestion run
other == <<other_pc, other_existing>>

\* what a step of the ingestion run has no hand in: the input folder, the
\* analysis step, the weather service and the second run
outside == <<dir, analysis, response, other>>

\* the state of the ingestion run but for the permanent table
ingestion == <<dir, temp_exists, temp_weather_data, existing_records, pc,
               files, task, collected, total_processed, total_duplicates, run,
               create_status, merge_status, drop_status, pending_exc, history>>

\* a process_file call not yet picked up by a pool thread
NewTask ==
  [st |-> "pending", pos |-> 0, processed_count |-> 0, duplicate_count |-> 0,
   skipped |-> 0, io_error |-> FALSE]

\* no analysis pass has run: the statistics table does not exist yet
AnalysisOff ==
  /\ stats_exists = FALSE
  /\ weather_station_yearly_stats = {}
  /\ apc = "off"
  /\ reflected = FALSE
  /\ yearly_stats = {}
  /\ rest = {}
  /\ new_records = {}
  /\ skipped_records = 0
  /\ returned = [kind |-> "none"]
  /\ passes = 0
  /\ stats_at_start = {}

\* no request has been served
NoResponse == [call |-> "none"]

\* no second run has been started
OtherOff == other_pc = "off" /\ other_existing = {}

\* the store and the components before the first run
Fresh ==
  /\ weather_data = {}
  /\ temp_exists = FALSE
  /\ temp_weather_data = {}
  /\ existing_records = {}
  /\ pc = "idle"
  /\ files = {}
  /\ task = [f \in {} |-> NewTask]
  /\ collected = {}
  /\ total_processed = 0
  /\ total_duplicates = 0
  /\ run = 0
  /\ faults = 0
  /\ create_status = "none"
  /\ merge_status = "none"
  /\ drop_status = "none"
  /\ pending_exc = "none"
  /\ outcome = "none"
  /\ rows_at_start = 0
  /\ prev_clean = FALSE
  /\ AnalysisOff
  /\ response = NoResponse
  /\ OtherOff

Init == dir \in Directories /\ Fresh

\* the environment may still make an operation fail
MayFail == faults < MaxFaults

\* ------------------------------------------------------------------------
\* Coordinator: DataIngestion(...) followed by initiate_data_ingestion()
\* ------------------------------------------------------------------------
StartRun(keys, failed) ==
  /\ pc = "idle"
  /\ run < MaxRuns
  /\ run' = run + 1
  /\ existing_records' = keys
  /\ faults' = faults + (IF failed THEN 1 ELSE 0)
  /\ pc' = "create"
  /\ files' = {}
  /\ task' = [f \in {} |-> NewTask]
  /\ collected' = {}
  /\ total_processed' = 0
  /\ total_duplicates' = 0
  /\ create_status' = "none"
  /\ merge_status' = "none"
  /\ drop_status' = "none"
  /\ pending_exc' = "none"
  /\ rows_at_start' = Cardinality(weather_data)
  /\ prev_clean' = /\ outcome = "completed"
                   /\ \A f \in DOMAIN task : ~task[f].io_error
  /\ outcome' = "none"
  /\ UNCHANGED <<outside, store>>

\* __init__ with _fetch_existing_records reading every (station_id, date)
FetchOk == StartRun({Key(r) : r \in weather_data}, FALSE)

\* the query fails: the error is logged, the set stays as __init__ made it
FetchFail == MayFail /\ StartRun({}, TRUE)

\* create_temporary_table, CREATE TABLE succeeds
CreateOk ==
  /\ pc = "create"
  /\ ~temp_exists
  /\ temp_exists' = TRUE
  /\ temp_weather_data' = {}
  /\ create_status' = "ok"
  /\ pc' = "list"
  /\ UNCHANGED <<outside, weather_data, existing_records, files, task,
                 collected, totals, run, faults, merge_status, drop_status,
                 pending_exc, history>>

\* create_temporary_table, CREATE TABLE fails (the table is already there,
\* or the store is out of reach): logged, not raised
CreateFail ==
  /\ pc = "create"
  /\ temp_exists \/ MayFail
  /\ faults' = faults + (IF temp_exists THEN 0 ELSE 1)
  /\ create_status' = "failed"
  /\ pc' = "list"
  /\ UNCHANGED <<outside, store, existing_records, files, task, collected, totals,
                 run, merge_status, drop_status, pending_exc, history>>

\* os.listdir filtered on '.txt', then one executor.submit per file
ListAndSubmit ==
  /\ pc = "list"
  /\ files' = {f \in DOMAIN dir : IsTxt(f)}
  /\ task' = [f \in files' |-> NewTask]
  /\ pc' = "collect"
  /\ UNCHANGED <<outside, store, existing_records, collected, totals, run, faults,
                 create_status, merge_status, drop_status, pending_exc, history>>

\* os.listdir raises: except Exception wraps it in CustomException
ListFail ==
  /\ pc = "list"
  /\ MayFail
  /\ faults' = faults + 1
  /\ pending_exc' = "CustomException"
  /\ pc' = "drop"
  /\ UNCHANGED <<outside, store, existing_records, files, task, collected, totals,
                 run, create_status, merge_status, drop_status, history>>

\* Done as a coordinator that does not wait for its futures would have it
Done_NoWait(f) == TRUE

\* the future of f is resolved
Done(f) == task[f].st \in {"returned", "raised"}

\* as_completed yields f and future.result() hands over its counts
CollectResult(f) ==
  /\ pc = "collect"
  /\ f \in files \ collected
  /\ Done(f)
  /\ task[f].st # "raised"
  /\ collected' = collected \cup {f}
  /\ total_processed' = total_processed + task[f].processed_count
  /\ total_duplicates' = total_duplicates + task[f].duplicate_count
  /\ UNCHANGED <<outside, store, existing_records, pc, files, task, run, faults,
                 create_status, merge_status, drop_status, pending_exc, history>>

\* future.result() re-raises the SystemExit of exit(1); it is no Exception,
\* so neither except clause of the coordinator catches it
CollectRaise(f) ==
  /\ pc = "collect"
  /\ f \in files \ collected
  /\ Done(f)
  /\ task[f].st = "raised"
  /\ pending_exc' = "SystemExit"
  /\ pc' = "unwind"
  /\ UNCHANGED <<outside, store, existing_records, files, task, collected, totals,
                 run, faults, create_status, merge_status, drop_status, history>>

\* the with block ends: ThreadPoolExecutor.__exit__ is shutdown(wait=True)
LeavePool ==
  /\ pc = "collect"
  /\ collected = files
  /\ \A f \in files : Done(f)
  /\ pc' = "merge"
  /\ UNCHANGED <<outside, store, existing_records, files, task, collected, totals,
                 run, faults, create_status, merge_status, drop_status,
                 pending_exc, history>>

\* LeavePoolRaising as a function without its finally block would have it
LeavePoolRaising_NoFinally ==
  /\ pc = "unwind"
  /\ \A f \in files : Done(f)
  /\ outcome' = pending_exc
  /\ pc' = "idle"
  /\ UNCHANGED <<outside, store, existing_records, files, task, collected, totals,
                 run, faults, create_status, merge_status, drop_status,
                 pending_exc, rows_at_start, prev_clean>>

\* LeavePoolRaising as an __exit__ that is shutdown(wait=False) would have it
LeavePoolRaising_NoWait ==
  /\ pc = "unwind"
  /\ pc' = "drop"
  /\ UNCHANGED <<outside, store, existing_records, files, task, collected, totals,
                 run, faults, create_status, merge_status, drop_status,
                 pending_exc, history>>

\* the same __exit__ while the SystemExit propagates
LeavePoolRaising ==
  /\ pc = "unwind"
  /\ \A f \in files : Done(f)
  /\ pc' = "drop"
  /\ UNCHANGED <<outside, store, existing_records, files, task, collected, totals,
                 run, faults, create_status, merge_status, drop_status,
                 pending_exc, history>>

\* Conflicts as an INSERT without its ON CONFLICT arbiter would have it
Conflicts_Off(table, s) == FALSE

\* ON CONFLICT (station_id, date): row s meets a row of the table
Conflicts(table, s) == \E r \in table : Key(r) = Key(s)

\* insert_into_main_table, the INSERT ... SELECT succeeds.  Of the staged
\* rows sharing a new key the one scanned first is inserted; the scan order
\* is the store's choice.  The autoincrement id only tells rows apart: the
\* model tells a stored row apart by rid, the insert that staged it.
MergeOk ==
  /\ pc = "merge"
  /\ temp_exists
  /\ LET fresh == {s \in temp_weather_data : ~Conflicts(weather_data, s)}
         keys == {Key(s) : s \in fresh}
     IN \E first \in [keys -> fresh] :
          /\ \A k \in keys : Key(first[k]) = k
          /\ weather_data' = weather_data \cup {first[k] : k \in keys}
  /\ merge_status' = "ok"
  /\ pc' = "drop"
  /\ UNCHANGED <<outside, temp_exists, temp_weather_data, existing_records, files,
                 task, collected, totals, run, faults, create_status,
                 drop_status, pending_exc, history>>

\* MergeFail as a merge that commits row by row would have it: the statement
\* fails with some of the staged rows already in the permanent table
MergeFail_Partial ==
  /\ pc = "merge"
  /\ ~temp_exists \/ MayFail
  /\ faults' = faults + (IF temp_exists THEN 1 ELSE 0)
  /\ \E part \in SUBSET {s \in temp_weather_data : ~Conflicts(weather_data, s)} :
       weather_data' = weather_data \cup part
  /\ merge_status' = "failed"
  /\ pc' = "drop"
  /\ UNCHANGED <<outside, temp_exists, temp_weather_data, existing_records, files,
                 task, collected, totals, run, create_status, drop_status,
                 pending_exc, history>>

\* insert_into_main_table, the statement fails (no staging table, or the
\* store is out of reach): both except clauses log and return
MergeFail ==
  /\ pc = "merge"
  /\ ~temp_exists \/ MayFail
  /\ faults' = faults + (IF temp_exists THEN 1 ELSE 0)
  /\ merge_status' = "failed"
  /\ pc' = "drop"
  /\ UNCHANGED <<outside, store, existing_records, files, task, collected, totals,
                 run, create_status, drop_status, pending_exc, history>>

\* how initiate_data_ingestion is left once the finally block is through
Leaving == IF pending_exc = "none" THEN "completed" ELSE pending_exc

\* DropOk as a DROP naming another table would have it
DropOk_WrongTable ==
  /\ pc = "drop"
  /\ drop_status' = "ok"
  /\ outcome' = Leaving
  /\ pc' = "idle"
  /\ UNCHANGED <<outside, store, existing_records, files, task, collected, totals,
                 run, faults, create_status, merge_status, pending_exc,
                 rows_at_start, prev_clean>>

\* finally: DROP TABLE IF EXISTS temp_weather_data succeeds
DropOk ==
  /\ pc = "drop"
  /\ temp_exists' = FALSE
  /\ temp_weather_data' = {}
  /\ drop_status' = "ok"
  /\ outcome' = Leaving
  /\ pc' = "idle"
  /\ UNCHANGED <<outside, weather_data, existing_records, files, task,
                 collected, totals, run, faults, create_status, merge_status,
                 pending_exc, rows_at_start, prev_clean>>

\* finally: the DROP fails, which is logged and swallowed
DropFail ==
  /\ pc = "drop"
  /\ MayFail
  /\ faults' = faults + 1
  /\ drop_status' = "failed"
  /\ outcome' = Leaving
  /\ pc' = "idle"
  /\ UNCHANGED <<outside, store, existing_records, files, task, collected, totals,
                 run, create_status, merge_status, pending_exc, rows_at_start,
                 prev_clean>>

\* ------------------------------------------------------------------------
\* Pool threads: process_file(file_path)
\* ------------------------------------------------------------------------
Running == {f \in DOMAIN task : task[f].st = "running"}

\* the fields of the line process_file is about to handle
NextData(f) == StripSplit(dir[f][task[f].pos + 1])

AtLine(f) ==
  /\ f \in DOMAIN task
  /\ task[f].st = "running"
  /\ task[f].pos < Len(dir[f])

\* the line has 4 fields and lines 114-118 go through
Parsed(f) == AtLine(f) /\ Len(NextData(f)) = 4 /\ ParseOk(NextData(f))

NextKey(f) == <<StationOf(f), ParseDate(NextData(f)[1])>>

unshared == <<outside, weather_data, temp_exists, existing_records, pc,
              files, collected, totals, run, create_status, merge_status,
              drop_status, pending_exc, history>>

\* OpenFile as a pool that starts a thread for every work item would have it
OpenFile_NoLimit(f) ==
  /\ f \in DOMAIN task
  /\ task[f].st = "pending"
  /\ task' = [task EXCEPT ![f].st = "running"]
  /\ UNCHANGED <<unshared, temp_weather_data, faults>>

\* a free pool thread takes the work item and open() succeeds
OpenFile(f) ==
  /\ f \in DOMAIN task
  /\ task[f].st = "pending"
  /\ Cardinality(Running) < max_workers
  /\ task' = [task EXCEPT ![f].st = "running"]
  /\ UNCHANGED <<unshared, temp_weather_data, faults>>

\* open() raises: the outer except returns the counts, still (0, 0)
OpenFail(f) ==
  /\ f \in DOMAIN task
  /\ task[f].st = "pending"
  /\ Cardinality(Running) < max_workers
  /\ MayFail
  /\ faults' = faults + 1
  /\ task' = [task EXCEPT ![f].st = "returned", ![f].io_error = TRUE]
  /\ UNCHANGED <<unshared, temp_weather_data>>

\* reading the next line raises: the outer except returns the counts so far
ReadFail(f) ==
  /\ AtLine(f)
  /\ MayFail
  /\ faults' = faults + 1
  /\ task' = [task EXCEPT ![f].st = "returned", ![f].io_error = TRUE]
  /\ UNCHANGED <<unshared, temp_weather_data>>

\* len(data) != 4: the line is passed over, nothing is logged or counted
\* (skipped is the model's own tally of these lines)
SkipLine(f) ==
  /\ AtLine(f)
  /\ Len(NextData(f)) # 4
  /\ task' = [task EXCEPT ![f].pos = @ + 1, ![f].skipped = @ + 1]
  /\ UNCHANGED <<unshared, temp_weather_data, faults>>

\* strptime or float raises: the inner except logs and calls exit(1), whose
\* SystemExit passes the outer except Exception and ends the call
FailLine(f) ==
  /\ AtLine(f)
  /\ Len(NextData(f)) = 4
  /\ ~ParseOk(NextData(f))
  /\ task' = [task EXCEPT ![f].pos = @ + 1, ![f].st = "raised"]
  /\ UNCHANGED <<unshared, temp_weather_data, faults>>

\* DupLine as the duplicate branch without its continue would have it: the
\* line is counted as a duplicate and inserted all the same
DupLine_NoContinue(f) ==
  /\ Parsed(f)
  /\ NextKey(f) \in existing_records
  /\ temp_exists
  /\ temp_weather_data' = temp_weather_data \cup
       {StagedRow(f, NextData(f), <<run, f, task[f].pos + 1>>)}
  /\ task' = [task EXCEPT ![f].pos = @ + 1, ![f].duplicate_count = @ + 1,
                          ![f].processed_count = @ + 1]
  /\ UNCHANGED <<unshared, faults>>

\* (station_id, date) in self.existing_records
DupLine(f) ==
  /\ Parsed(f)
  /\ NextKey(f) \in existing_records
  /\ task' = [task EXCEPT ![f].pos = @ + 1, ![f].duplicate_count = @ + 1]
  /\ UNCHANGED <<unshared, temp_weather_data, faults>>

\* StageLine as a branch that leaves processed_count alone would have it
StageLine_NoCount(f) ==
  /\ Parsed(f)
  /\ NextKey(f) \notin existing_records
  /\ temp_exists
  /\ temp_weather_data' = temp_weather_data \cup
       {StagedRow(f, NextData(f), <<run, f, task[f].pos + 1>>)}
  /\ task' = [task EXCEPT ![f].pos = @ + 1]
  /\ UNCHANGED <<unshared, faults>>

\* the INSERT INTO temp_weather_data goes through
StageLine(f) ==
  /\ Parsed(f)
  /\ NextKey(f) \notin existing_records
  /\ temp_exists
  /\ temp_weather_data' = temp_weather_data \cup
       {StagedRow(f, NextData(f), <<run, f, task[f].pos + 1>>)}
  /\ task' = [task EXCEPT ![f].pos = @ + 1, ![f].processed_count = @ + 1]
  /\ UNCHANGED <<unshared, faults>>

\* the INSERT raises (no staging table, or the store is out of reach): the
\* inner except logs and calls exit(1)
InsertFail(f) ==
  /\ Parsed(f)
  /\ NextKey(f) \notin existing_records
  /\ ~temp_exists \/ MayFail
  /\ faults' = faults + (IF temp_exists THEN 1 ELSE 0)
  /\ task' = [task EXCEPT ![f].pos = @ + 1, ![f].st = "raised"]
  /\ UNCHANGED <<unshared, temp_weather_data>>

\* the file is exhausted: return processed_count, duplicate_count
Return(f) ==
  /\ f \in DOMAIN task
  /\ task[f].st = "running"
  /\ task[f].pos = Len(dir[f])
  /\ task' = [task EXCEPT ![f].st = "returned"]
  /\ UNCHANGED <<unshared, temp_weather_data, faults>>

\* ------------------------------------------------------------------------
\* Specification
\* ------------------------------------------------------------------------
Next ==
  \/ FetchOk
  \/ FetchFail
  \/ CreateOk
  \/ CreateFail
  \/ ListAndSubmit
  \/ ListFail
  \/ \E f \in FileNames : CollectResult(f)
  \/ \E f \in FileNames : CollectRaise(f)
  \/ LeavePool
  \/ LeavePoolRaising
  \/ MergeOk
  \/ MergeFail
  \/ DropOk
  \/ DropFail
  \/ \E f \in FileNames : OpenFile(f)
  \/ \E f \in FileNames : OpenFail(f)
  \/ \E f \in FileNames : ReadFail(f)
  \/ \E f \in FileNames : SkipLine(f)
  \/ \E f \in FileNames : FailLine(f)
  \/ \E f \in FileNames : DupLine(f)
  \/ \E f \in FileNames : StageLine(f)
  \/ \E f \in FileNames : InsertFail(f)
  \/ \E f \in FileNames : Return(f)

Spec == Init /\ [][Next]_vars

\* ------------------------------------------------------------------------
\* Runs over lines with empty fields at their ends
\* ------------------------------------------------------------------------
\* raw lines of one station file: five fields of which the first is empty,
\* four fields of which the last is empty, the example of the format and an
\* impossible date
RawLines ==
  { <<Blank, Num(19850101), Num(100), Num(-50), Num(0)>>,
    <<Num(19850101), Num(100), Num(-50), Blank>>,
    <<Num(19850101), Num(100), Num(-50), Num(-9999)>>,
    <<Num(19850230), Num(100), Num(-50), Num(0)>> }

RawDirectories ==
  { (<<"A", "txt">> :> c) : c \in UNION { [1..n -> RawLines] : n \in 0..MaxLines } }

InitRaw == dir \in RawDirectories /\ Fresh

SpecRaw == InitRaw /\ [][Next]_vars

\* ------------------------------------------------------------------------
\* Runs over more files than the pool has threads
\* ------------------------------------------------------------------------
PoolFiles ==
  { <<"A", "txt">>, <<"B", "txt">>, <<"C", "txt">>, <<"D", "txt">>,
    <<"E", "txt">> }

\* what the first of the files holds: two lines to stage, or a line of three
\* fields before an impossible date
PoolContents ==
  { << <<Num(19850101), Num(100), Num(-50), Num(-9999)>>,
       <<Num(19850102), Num(100), Num(-50), Num(0)>> >>,
    << <<Num(19850101), Num(100), Num(-50)>>,
       <<Num(19850230), Num(100), Num(-50), Num(0)>> >> }

\* the folders: the first file with its lines, the others empty
PoolDirectories ==
  { [f \in PoolFiles |-> IF f = <<"A", "txt">> THEN c ELSE << >>] :
      c \in PoolContents }

InitPool == dir \in PoolDirectories /\ Fresh

NextPool ==
  \/ FetchOk
  \/ FetchFail
  \/ CreateOk
  \/ CreateFail
  \/ ListAndSubmit
  \/ ListFail
  \/ \E f \in PoolFiles : CollectResult(f)
  \/ \E f \in PoolFiles : CollectRaise(f)
  \/ LeavePool
  \/ LeavePoolRaising
  \/ MergeOk
  \/ MergeFail
  \/ DropOk
  \/ DropFail
  \/ \E f \in PoolFiles : OpenFile(f)
  \/ \E f \in PoolFiles : OpenFail(f)
  \/ \E f \in PoolFiles : ReadFail(f)
  \/ \E f \in PoolFiles : SkipLine(f)
  \/ \E f \in PoolFiles : FailLine(f)
  \/ \E f \in PoolFiles : DupLine(f)
  \/ \E f \in PoolFiles : StageLine(f)
  \/ \E f \in PoolFiles : InsertFail(f)
  \/ \E f \in PoolFiles : Return(f)

SpecPool == InitPool /\ [][NextPool]_vars

\* ------------------------------------------------------------------------
\* Runs with their threads scheduled
\* ------------------------------------------------------------------------
\* the folders: a file of two lines next to a file that is empty or holds
\* one line to stage
LiveDirectories ==
  { (<<"A", "txt">> :> c) @@ (<<"B", "txt">> :> d) :
      c \in PoolContents,
      d \in { << >>, << <<Num(19850101), Num(-99990), Num(20), Num(0)>> >> } }

InitLive == dir \in LiveDirectories /\ Fresh

\* a step of a run that has been started: the coordinator and the pool
\* threads are scheduled, and every call they make returns
RunStep == pc # "idle" /\ Next

\* when a run is started is up to the caller
SpecLive == InitLive /\ [][Next]_vars /\ WF_vars(RunStep)

\* ------------------------------------------------------------------------
\* Runs over a folder that has changed since the run before
\* ------------------------------------------------------------------------
\* between the first run and the next the files of the folder are replaced
NewFolder ==
  /\ pc = "idle"
  /\ run = 1
  /\ dir' \in LiveDirectories \ {dir}
  /\ UNCHANGED <<store, existing_records, pc, files, task, collected, totals,
                 run, faults, create_status, merge_status, drop_status,
                 pending_exc, history, analysis, response, other>>

NextRerun == Next \/ NewFolder

SpecRerun == InitLive /\ [][NextRerun]_vars

\* ------------------------------------------------------------------------
\* Writers next to the run: an external writer and a second ingestion run,
\* another process of main.py over the same folder and the same store.  The
\* second run takes part by its statements on the store, in the order
\* initiate_data_ingestion issues them; its workers are taken in one step.
\* ------------------------------------------------------------------------
\* the state of the first run that is in its own process
private == <<existing_records, pc, files, task, collected, total_processed,
             total_duplicates, run, create_status, merge_status, drop_status,
             pending_exc, history>>

\* the row an external writer inserts
ExternalRow ==
  [station_id |-> "A", date |-> [year |-> 1985, month |-> 1, day |-> 1],
   max_temp |-> Some(1), min_temp |-> Some(2), precipitation |-> Some(3),
   rid |-> <<0, <<"ext">>, 0>>]

\* an INSERT INTO weather_data of an external writer; under a key the table
\* holds it fails on the unique constraint and changes nothing
ExternalInsert ==
  /\ ~Conflicts(weather_data, ExternalRow)
  /\ weather_data' = weather_data \cup {ExternalRow}
  /\ UNCHANGED <<ingestion, faults, analysis, response, other>>

\* the second run: __init__ with _fetch_existing_records
OtherStart ==
  /\ other_pc = "off"
  /\ other_existing' = {Key(r) : r \in weather_data}
  /\ other_pc' = "create"
  /\ UNCHANGED <<ingestion, weather_data, faults, analysis, response>>

\* the second run: create_temporary_table; with the table of the first run
\* in place the CREATE fails, which is logged and passed over
OtherCreate ==
  /\ other_pc = "create"
  /\ temp_exists' = TRUE
  /\ temp_weather_data' = IF temp_exists THEN temp_weather_data ELSE {}
  /\ other_pc' = "process"
  /\ UNCHANGED <<dir, private, weather_data, faults, analysis, response,
                 other_existing>>

\* the line at which process_file of the second run ends file f by exit(1):
\* the first line that fails to parse or, without a staging table, the first
\* line to insert; past the end of the file when there is none
OtherStop(f) ==
  LET fails(i) ==
        LET data == StripSplit(dir[f][i])
        IN /\ Len(data) = 4
           /\ \/ ~ParseOk(data)
              \/ /\ ~temp_exists
                 /\ <<StationOf(f), ParseDate(data[1])>> \notin other_existing
      bad == {i \in 1..Len(dir[f]) : fails(i)}
  IN IF bad = {} THEN Len(dir[f]) + 1
     ELSE CHOOSE i \in bad : \A j \in bad : i <= j

\* the rows process_file of the second run stages from file f
OtherStaged(f) ==
  { StagedRow(f, StripSplit(dir[f][i]), <<0, f, i>>) :
      i \in {j \in 1..(OtherStop(f) - 1) :
               /\ ValidLine(dir[f][j])
               /\ <<StationOf(f), ParseDate(StripSplit(dir[f][j])[1])>>
                    \notin other_existing} }

\* the second run: every process_file call, up to the end of the with block
OtherProcess ==
  /\ other_pc = "process"
  /\ LET listed == {f \in DOMAIN dir : IsTxt(f)}
     IN /\ temp_weather_data' =
             temp_weather_data \cup UNION {OtherStaged(f) : f \in listed}
        /\ other_pc' = IF \E f \in listed : OtherStop(f) <= Len(dir[f])
                       THEN "drop" ELSE "merge"
  /\ UNCHANGED <<dir, private, weather_data, temp_exists, faults, analysis,
                 response, other_existing>>

\* the second run: insert_into_main_table; without a staging table the
\* statement fails, which is logged and passed over
OtherMerge ==
  /\ other_pc = "merge"
  /\ LET fresh == {s \in temp_weather_data : ~Conflicts(weather_data, s)}
         keys == {Key(s) : s \in fresh}
     IN \E first \in [keys -> fresh] :
          /\ \A k \in keys : Key(first[k]) = k
          /\ weather_data' = weather_data \cup {first[k] : k \in keys}
  /\ other_pc' = "drop"
  /\ UNCHANGED <<ingestion, faults, analysis, response, other_existing>>

\* the second run: finally, DROP TABLE IF EXISTS temp_weather_data
OtherDrop ==
  /\ other_pc = "drop"
  /\ temp_exists' = FALSE
  /\ temp_weather_data' = {}
  /\ other_pc' = "done"
  /\ UNCHANGED <<dir, private, weather_data, faults, analysis, response,
                 other_existing>>

\* the folders of the runs that race: one station file
RaceDirectories == Folders({<<"A", "txt">>}, MaxLines)

InitRace == dir \in RaceDirectories /\ Fresh

NextRace ==
  \/ Next
  \/ ExternalInsert
  \/ OtherStart
  \/ OtherCreate
  \/ OtherProcess
  \/ OtherMerge
  \/ OtherDrop

SpecRace == InitRace /\ [][NextRace]_vars

\* ------------------------------------------------------------------------
\* Analysis step of main: DataAnalysis (src/src/components/data_analysis.py)
\* ------------------------------------------------------------------------
MaxObs == 3

MaxPasses == 2

\* a row of weather_data as a merge leaves it
Observation(k, rd) ==
  [station_id |-> k[1], date |-> k[2], max_temp |-> rd[1], min_temp |-> rd[2],
   precipitation |-> rd[3], rid |-> <<0, <<k[1], "txt">>, k[2].day>>]

\* the observations the ingestion runs bring: a station over three days of
\* a year, with a reading missing here and there, a day of the next year
\* in two versions, and a second station
Observations ==
  LET day(y, d) == [year |-> y, month |-> 1, day |-> d]
  IN { Observation(<<"A", day(1985, 1)>>, <<Some(100), Null, Null>>),
       Observation(<<"A", day(1985, 2)>>, <<Null, Some(-50), Null>>),
       Observation(<<"A", day(1985, 3)>>, <<Some(200), Some(30), Some(15)>>),
       Observation(<<"A", day(1986, 1)>>, <<Some(100), Null, Null>>),
       Observation(<<"A", day(1986, 1)>>, <<Some(200), Some(30), Some(15)>>),
       Observation(<<"B", day(1985, 1)>>, <<Null, Some(-50), Null>>) }

\* an ingestion run between two passes of the analysis has merged a row
\* under a key the permanent table did not hold
Ingested(o) ==
  /\ apc = "off"
  /\ Cardinality(weather_data) < MaxObs
  /\ ~Conflicts(weather_data, o)
  /\ weather_data' = weather_data \cup {o}
  /\ UNCHANGED <<ingestion, faults, analysis, response, other>>

RECURSIVE GCD(_, _)
GCD(a, b) == IF b = 0 THEN a ELSE GCD(b, a % b)

Abs(x) == IF x < 0 THEN -x ELSE x

\* the quotient n / d, d > 0, in lowest terms
Ratio(n, d) ==
  LET g == GCD(Abs(n), d) IN [num |-> n \div g, den |-> d \div g]

\* func.extract('year', WeatherData.date)
Year(r) == r.date.year

\* .group_by(WeatherData.station_id, func.extract('year', WeatherData.date))
GroupOf(r) == <<r.station_id, Year(r)>>

Group(g) == {r \in weather_data : GroupOf(r) = g}

\* CaseMax as a case with else_=0 would have it
CaseMax_ElseZero(r) == IF ~r.max_temp.null THEN r.max_temp ELSE Some(0)

\* case([(WeatherData.max_temp != None, WeatherData.max_temp)], else_=None)
CaseMax(r) == IF ~r.max_temp.null THEN r.max_temp ELSE Null

\* case([(WeatherData.min_temp != None, WeatherData.min_temp)], else_=None)
CaseMin(r) == IF ~r.min_temp.null THEN r.min_temp ELSE Null

\* case([(WeatherData.precipitation != None, WeatherData.precipitation)],
\*      else_=0.0)
CasePrecipitation(r) ==
  IF ~r.precipitation.null THEN r.precipitation ELSE Some(0)

\* the sum of the non-null values of val, a value for each of the rows
RECURSIVE Total(_, _)
Total(rows, val) ==
  IF rows = {} THEN 0
  ELSE LET r == CHOOSE x \in rows : TRUE
       IN (IF val[r].null THEN 0 ELSE val[r].v) + Total(rows \ {r}, val)

\* null, where the values are quotients
NoMean == [null |-> TRUE, v |-> [num |-> 0, den |-> 1]]

\* func.avg: the mean of the non-null values of val, null when there is none
Avg(rows, val) ==
  LET n == Cardinality({r \in rows : ~val[r].null})
  IN IF n = 0 THEN NoMean ELSE Some(Ratio(Total(rows, val), n))

\* func.sum: the sum of the non-null values of val, null when there is none
Sum(rows, val) ==
  IF \A r \in rows : val[r].null THEN Null ELSE Some(Total(rows, val))

\* the row the query yields for group g
StatOf(g) ==
  [station_id |-> g[1], year |-> g[2],
   avg_max_temp |-> Avg(Group(g), [r \in Group(g) |-> CaseMax(r)]),
   avg_min_temp |-> Avg(Group(g), [r \in Group(g) |-> CaseMin(r)]),
   total_precipitation |->
     Sum(Group(g), [r \in Group(g) |-> CasePrecipitation(r)])]

StatKey(s) == <<s.station_id, s.year>>

\* DataAnalysis(analysis_config): metadata.reflect() reads the tables
NewDataAnalysis ==
  /\ apc = "off"
  /\ passes < MaxPasses
  /\ passes' = passes + 1
  /\ reflected' = stats_exists
  /\ stats_at_start' = weather_station_yearly_stats
  /\ returned' = [kind |-> "none"]
  /\ apc' = "new"
  /\ UNCHANGED <<ingestion, weather_data, faults, stats_exists,
                 weather_station_yearly_stats, yearly_stats, rest, new_records,
                 skipped_records, response, other>>

\* create_weather_station_yearly_stats_table, the table was not reflected:
\* create_all
CreateStatsTable ==
  /\ apc = "new"
  /\ ~reflected
  /\ stats_exists' = TRUE
  /\ apc' = "created"
  /\ UNCHANGED <<ingestion, weather_data, faults, weather_station_yearly_stats,
                 reflected, yearly_stats, rest, new_records, skipped_records,
                 returned, passes, stats_at_start, response, other>>

\* the table was reflected and current_table.compare(...) is true
KeepStatsTable ==
  /\ apc = "new"
  /\ reflected
  /\ apc' = "created"
  /\ UNCHANGED <<ingestion, weather_data, faults, stats_exists,
                 weather_station_yearly_stats, reflected, yearly_stats, rest,
                 new_records, skipped_records, returned, passes,
                 stats_at_start, response, other>>

\* the table was reflected and current_table.compare(...) is false:
\* current_table.drop, then create_all.  compare sets the reflected Table
\* against the declared one: by identity in SQLAlchemy 1.3, where it is
\* always false, by structure in 1.4; the model leaves the outcome open.
RebuildStatsTable ==
  /\ apc = "new"
  /\ reflected
  /\ weather_station_yearly_stats' = {}
  /\ apc' = "created"
  /\ UNCHANGED <<ingestion, weather_data, faults, stats_exists, reflected,
                 yearly_stats, rest, new_records, skipped_records, returned,
                 passes, stats_at_start, response, other>>

\* a step of the analysis raises: CustomException leaves main
AnalysisFail(at) ==
  /\ apc = at
  /\ MayFail
  /\ faults' = faults + 1
  /\ apc' = "off"
  /\ UNCHANGED <<ingestion, weather_data, stats_exists,
                 weather_station_yearly_stats, reflected, yearly_stats, rest,
                 new_records, skipped_records, returned, passes,
                 stats_at_start, response, other>>

\* create_weather_station_yearly_stats_table raises
CreateStatsFail == AnalysisFail("new")

\* calculate_yearly_stats: the grouped query, .all()
CalculateYearlyStats ==
  /\ apc = "created"
  /\ yearly_stats' = {StatOf(g) : g \in {GroupOf(r) : r \in weather_data}}
  /\ apc' = "calculated"
  /\ UNCHANGED <<ingestion, weather_data, faults, stats_exists,
                 weather_station_yearly_stats, reflected, rest, new_records,
                 skipped_records, returned, passes, stats_at_start, response,
                 other>>

\* calculate_yearly_stats raises
CalculateFail == AnalysisFail("created")

\* store_yearly_stats: session = self.Session(), skipped_records = 0
BeginStore ==
  /\ apc = "calculated"
  /\ rest' = yearly_stats
  /\ new_records' = {}
  /\ skipped_records' = 0
  /\ apc' = "storing"
  /\ UNCHANGED <<ingestion, weather_data, faults, stats_exists,
                 weather_station_yearly_stats, reflected, yearly_stats,
                 returned, passes, stats_at_start, response, other>>

\* session.query(WeatherStationYearlyStats).filter_by(...).first(): the
\* query flushes the session first, so it sees the records added before
existing_record(stat) ==
  \E r \in weather_station_yearly_stats \cup new_records :
    StatKey(r) = StatKey(stat)

\* SkipStat as a skip that adds the record all the same would have it
SkipStat_StillAdded(stat) ==
  /\ apc = "storing"
  /\ stat \in rest
  /\ existing_record(stat)
  /\ skipped_records' = skipped_records + 1
  /\ new_records' = new_records \cup {stat}
  /\ rest' = rest \ {stat}
  /\ UNCHANGED <<ingestion, weather_data, faults, stats_exists,
                 weather_station_yearly_stats, apc, reflected, yearly_stats,
                 returned, passes, stats_at_start, response, other>>

\* the loop body, if existing_record: skipped_records += 1
SkipStat(stat) ==
  /\ apc = "storing"
  /\ stat \in rest
  /\ existing_record(stat)
  /\ skipped_records' = skipped_records + 1
  /\ rest' = rest \ {stat}
  /\ UNCHANGED <<ingestion, weather_data, faults, stats_exists,
                 weather_station_yearly_stats, apc, reflected, yearly_stats,
                 new_records, returned, passes, stats_at_start, response,
                 other>>

\* the loop body, else: session.add(new_record)
AddStat(stat) ==
  /\ apc = "storing"
  /\ stat \in rest
  /\ ~existing_record(stat)
  /\ new_records' = new_records \cup {stat}
  /\ rest' = rest \ {stat}
  /\ UNCHANGED <<ingestion, weather_data, faults, stats_exists,
                 weather_station_yearly_stats, apc, reflected, yearly_stats,
                 skipped_records, returned, passes, stats_at_start, response,
                 other>>

\* session.commit() after the loop; the function ends without a return
\* statement, which hands back None
CommitStats ==
  /\ apc = "storing"
  /\ rest = {}
  /\ weather_station_yearly_stats' = weather_station_yearly_stats \cup new_records
  /\ returned' = [kind |-> "None"]
  /\ apc' = "off"
  /\ UNCHANGED <<ingestion, weather_data, faults, stats_exists, reflected,
                 yearly_stats, rest, new_records, skipped_records, passes,
                 stats_at_start, response, other>>

\* StoreFail as a session in autocommit mode would have it: the records
\* flushed before the error stay in the table
StoreFail_Flushed ==
  /\ apc = "storing"
  /\ MayFail
  /\ faults' = faults + 1
  /\ weather_station_yearly_stats' = weather_station_yearly_stats \cup new_records
  /\ apc' = "off"
  /\ UNCHANGED <<ingestion, weather_data, stats_exists, reflected, yearly_stats,
                 rest, new_records, skipped_records, returned, passes,
                 stats_at_start, response, other>>

\* a query of the loop or the commit raises: nothing is committed
StoreFail == AnalysisFail("storing")

\* no ingestion run is under way and the input folder is empty
NoRun ==
  /\ dir = [f \in {} |-> << >>]
  /\ temp_exists = FALSE
  /\ temp_weather_data = {}
  /\ existing_records = {}
  /\ pc = "idle"
  /\ files = {}
  /\ task = [f \in {} |-> NewTask]
  /\ collected = {}
  /\ total_processed = 0
  /\ total_duplicates = 0
  /\ run = 0
  /\ faults = 0
  /\ create_status = "none"
  /\ merge_status = "none"
  /\ drop_status = "none"
  /\ pending_exc = "none"
  /\ outcome = "none"
  /\ rows_at_start = 0
  /\ prev_clean = FALSE
  /\ OtherOff

\* the analysis after ingestion runs that merged their rows
InitAnalysis ==
  /\ NoRun
  /\ weather_data = {}
  /\ AnalysisOff
  /\ response = NoResponse

NextAnalysis ==
  \/ \E o \in Observations : Ingested(o)
  \/ NewDataAnalysis
  \/ CreateStatsTable
  \/ KeepStatsTable
  \/ RebuildStatsTable
  \/ CreateStatsFail
  \/ CalculateYearlyStats
  \/ CalculateFail
  \/ BeginStore
  \/ \E stat \in yearly_stats : SkipStat(stat)
  \/ \E stat \in yearly_stats : AddStat(stat)
  \/ CommitStats
  \/ StoreFail

SpecAnalysis == InitAnalysis /\ [][NextAnalysis]_vars

\* ------------------------------------------------------------------------
\* Weather service (src/src/services/weather_service.py)
\* ------------------------------------------------------------------------
MaxRecords == 15

MaxPage == 3

MaxPerPage == 10

\* date.isoformat(): year, month and day between the dashes
IsoFormat(d) == <<d.year, d.month, d.day>>

\* an argument the request did not give, or gave empty
NoStation == ""

NoDate == << >>

\* the station_id and date arguments of the requests
StationArgs == {NoStation, "A", "C"}

DateArgs == {NoDate, <<1985, 1, 1>>}

\* session.query(WeatherData) with the filters of the arguments given
WeatherQuery(station_id, date) ==
  {r \in weather_data :
     /\ station_id # NoStation => r.station_id = station_id
     /\ date # NoDate => IsoFormat(r.date) = date}

\* session.query(WeatherStationYearlyStats) with the filter of the argument
StatsQuery(station_id) ==
  {r \in weather_station_yearly_stats :
     station_id # NoStation => r.station_id = station_id}

\* the place of a row in the order the store hands the rows out; the
\* queries have no ORDER BY, the model takes station and year
Rank(r, year) == (IF r.station_id = "A" THEN 0 ELSE 10000) + year

\* the rows in that order
RECURSIVE Ordered(_, _)
Ordered(rows, rank) ==
  IF rows = {} THEN << >>
  ELSE LET r == CHOOSE x \in rows : \A y \in rows : rank[x] <= rank[y]
       IN <<r>> \o Ordered(rows \ {r}, rank)

\* Offset as an offset counted from page 0 would have it
Offset_FromPage(page, per_page) == page * per_page

\* .offset((page - 1) * per_page)
Offset(page, per_page) == (page - 1) * per_page

\* .offset(offset).limit(limit).all()
OffsetLimit(seq, offset, limit) ==
  LET last == IF offset + limit < Len(seq) THEN offset + limit ELSE Len(seq)
  IN IF offset >= Len(seq) THEN << >> ELSE SubSeq(seq, offset + 1, last)

\* WeatherData.to_dict
WeatherData_to_dict(r) ==
  [station_id |-> r.station_id, date |-> IsoFormat(r.date),
   max_temp |-> r.max_temp, min_temp |-> r.min_temp,
   precipitation |-> r.precipitation]

\* WeatherStationYearlyStats.to_dict
WeatherStationYearlyStats_to_dict(r) ==
  [station_id |-> r.station_id, year |-> r.year,
   avg_max_temp |-> r.avg_max_temp, avg_min_temp |-> r.avg_min_temp,
   total_precipitation |-> r.total_precipitation]

get_weather_data(station_id, date, page, per_page) ==
  LET query == WeatherQuery(station_id, date)
      total == Cardinality(query)
      rows == Ordered(query, [r \in query |-> Rank(r, Year(r))])
      data == OffsetLimit(rows, Offset(page, per_page), per_page)
  IN /\ response = NoResponse
     /\ response' =
          [call |-> "get_weather_data", station_id |-> station_id,
           date |-> date, total |-> total, page |-> page,
           per_page |-> per_page,
           data |-> [i \in 1..Len(data) |-> WeatherData_to_dict(data[i])]]
     /\ UNCHANGED <<ingestion, weather_data, faults, analysis, other>>

get_weather_stats(station_id, page, per_page) ==
  LET query == StatsQuery(station_id)
      total == Cardinality(query)
      rows == Ordered(query, [r \in query |-> Rank(r, r.year)])
      data == OffsetLimit(rows, Offset(page, per_page), per_page)
  IN /\ response = NoResponse
     /\ response' =
          [call |-> "get_weather_stats", station_id |-> station_id,
           date |-> NoDate, total |-> total, page |-> page,
           per_page |-> per_page,
           data |-> [i \in 1..Len(data) |->
                       WeatherStationYearlyStats_to_dict(data[i])]]
     /\ UNCHANGED <<ingestion, weather_data, faults, analysis, other>>

\* the route hands the result to the client: return jsonify(data)
jsonify ==
  /\ response # NoResponse
  /\ response' = NoResponse
  /\ UNCHANGED <<ingestion, weather_data, faults, analysis, other>>

\* the observation of station st in the n-th year
YearObs(st, n) ==
  Observation(<<st, [year |-> 1984 + n, month |-> 1, day |-> 1]>>,
              <<Some(200), Some(30), Some(15)>>)

\* the service over a store of at most MaxRecords observations, one a year
\* for each of two stations, whose yearly statistics have been stored
InitService ==
  /\ NoRun
  /\ \E nA, nB \in 0..MaxRecords :
       /\ nA + nB <= MaxRecords
       /\ weather_data = {YearObs("A", n) : n \in 1..nA}
                           \cup {YearObs("B", n) : n \in 1..nB}
  /\ stats_exists = TRUE
  /\ weather_station_yearly_stats = {StatOf(GroupOf(r)) : r \in weather_data}
  /\ apc = "off"
  /\ reflected = FALSE
  /\ yearly_stats = {}
  /\ rest = {}
  /\ new_records = {}
  /\ skipped_records = 0
  /\ returned = [kind |-> "none"]
  /\ passes = 0
  /\ stats_at_start = {}
  /\ response = NoResponse

NextService ==
  \/ \E station_id \in StationArgs, date \in DateArgs,
        page \in 1..MaxPage, per_page \in 1..MaxPerPage :
       get_weather_data(station_id, date, page, per_page)
  \/ \E station_id \in StationArgs, page \in 1..MaxPage,
        per_page \in 1..MaxPerPage :
       get_weather_stats(station_id, page, per_page)
  \/ jsonify

SpecService == InitService /\ [][NextService]_vars

\* ------------------------------------------------------------------------
\* Properties
\* ------------------------------------------------------------------------
\* the last started run has left initiate_data_ingestion
RunEnded == pc = "idle" /\ run > 0

Resolved(f) == task[f].st \in {"returned", "raised"}

\* the line has 4 fields and fails to parse
BadLine(line) == Len(StripSplit(line)) = 4 /\ ~ParseOk(StripSplit(line))

RECURSIVE ValidLinesIn(_)
ValidLinesIn(S) ==
  IF S = {} THEN 0
  ELSE LET f == CHOOSE x \in S : TRUE
       IN Cardinality({i \in 1..Len(dir[f]) : ValidLine(dir[f][i])})
          + ValidLinesIn(S \ {f})

\* the raw fields of the line a staged row was made from
RawOf(s) == StripSplit(dir[s.rid[2]][s.rid[3]])

\* C1: the merge never starts while a dispatched process_file call is still
\* pending or running, whatever the interleaving of the workers.
C1_MergeAfterAllWorkers ==
  (pc = "merge" \/ merge_status # "none") => \A f \in files : Resolved(f)

\* a merge went through over rows staged by two different workers
C1_Witness ==
  /\ merge_status = "ok"
  /\ \E s, t \in temp_weather_data : s.rid[2] # t.rid[2]

\* C2: the permanent table never holds two rows with the same
\* (station_id, date); no step changes or removes a row it holds; a merge
\* that goes through leaves every staged key in the table, the staged rows
\* whose key was taken being dropped without failing the statement.
C2_UniqueKeys ==
  /\ [](\A r1, r2 \in weather_data : Key(r1) = Key(r2) => r1 = r2)
  /\ [][/\ \A r \in weather_data : r \in weather_data'
        /\ (merge_status = "none" /\ merge_status' = "ok") =>
             \A s \in temp_weather_data :
               \E r \in weather_data' : Key(r) = Key(s)]_vars

\* a merge went through that inserted nothing, one staged row carrying other
\* readings than the row already stored under its key
C2_Witness ==
  /\ merge_status = "ok"
  /\ rows_at_start > 0
  /\ Cardinality(weather_data) = rows_at_start
  /\ \E s \in temp_weather_data :
       \E r \in weather_data : Key(r) = Key(s) /\ r.max_temp # s.max_temp

\* C3: a reading whose raw integer is -9999 is staged as null and never as
\* -999.9, field by field.
C3_SentinelStagedAsNull ==
  \A s \in temp_weather_data :
    /\ RawOf(s)[2].v = Sentinel => s.max_temp = Null
    /\ RawOf(s)[3].v = Sentinel => s.min_temp = Null
    /\ RawOf(s)[4].v = Sentinel => s.precipitation = Null

\* C4: a line that fails to parse is skipped alone: once the run has ended,
\* every file that could be read was read to its last line and the merge
\* was executed.
C4_BadLineSkippedOnly ==
  (/\ RunEnded
   /\ \E f \in files : \E i \in 1..Len(dir[f]) : BadLine(dir[f][i]))
  => /\ \A f \in files : task[f].io_error \/ task[f].pos = Len(dir[f])
     /\ merge_status # "none"

\* C5: when the staging table cannot be created no file is submitted, no
\* process_file call exists, no merge is executed and the run does not end
\* as completed.
C5_CreateFailureAborts ==
  create_status = "failed" =>
    /\ files = {}
    /\ DOMAIN task = {}
    /\ merge_status = "none"
    /\ RunEnded => outcome # "completed"

\* C6: a run whose merge statement failed has dropped the staging table and
\* ends with an error raised to the caller, never as completed.
C6_MergeFailureRaised ==
  (RunEnded /\ merge_status = "failed") =>
    drop_status # "none" /\ outcome # "completed"

\* C7, as stated: after a run that got to its merge, failed or not, the
\* staging table does not exist.
C7_StagingAbsentAfterRun ==
  (RunEnded /\ merge_status # "none") => ~temp_exists

\* C7, amended: after a run that got to its merge, failed or not, the drop
\* of the staging table has been executed, and the table does not exist if
\* that drop went through.
C7_StagingDroppedAfterRun ==
  (RunEnded /\ merge_status # "none") =>
    /\ drop_status # "none"
    /\ drop_status = "ok" => ~temp_exists

\* a run has ended whose merge failed on an existing, filled staging table
C7_Witness ==
  /\ RunEnded
  /\ merge_status = "failed"
  /\ create_status = "ok"
  /\ total_processed > 0
  /\ drop_status = "ok"
  /\ ~temp_exists

\* C8: when a run has completed and a second run over the same folder has
\* completed after it, both having read every file of the folder, the
\* second run counted every valid line of the folder as a duplicate and
\* left the row count of the permanent table as it found it.
C8_SecondRunIdempotent ==
  (/\ RunEnded
   /\ run >= 2
   /\ prev_clean
   /\ outcome = "completed" /\ \A f \in files : ~task[f].io_error)
  => /\ total_duplicates = ValidLinesIn(files)
     /\ Cardinality(weather_data) = rows_at_start

\* C9, as stated: for every process_file call that has returned, accepted +
\* duplicate + skipped equals the number of lines of its file.
C9_CountsCoverFile ==
  \A f \in DOMAIN task :
    task[f].st = "returned" =>
      task[f].processed_count + task[f].duplicate_count + task[f].skipped
        = Len(dir[f])

\* C9, amended: for every process_file call that has returned after reading
\* its file to the end, accepted + duplicate + the lines passed over for not
\* having 4 fields equals the number of lines of its file.
C9_CountsCoverReadFile ==
  \A f \in DOMAIN task :
    (task[f].st = "returned" /\ ~task[f].io_error) =>
      task[f].processed_count + task[f].duplicate_count + task[f].skipped
        = Len(dir[f])

\* a call has returned from a file with a duplicate and a passed-over line
C9_Witness ==
  \E f \in DOMAIN task :
    /\ task[f].st = "returned"
    /\ ~task[f].io_error
    /\ task[f].duplicate_count = 1
    /\ task[f].skipped = 1

\* C10: when a file could not be opened or read, its call has returned its
\* counts, every other file has been processed and the run has executed
\* its merge.
C10_UnreadableFileTolerated ==
  (RunEnded /\ \E f \in files : task[f].io_error) =>
    /\ \A f \in files : task[f].io_error => task[f].st = "returned"
    /\ \A f \in files : Resolved(f)
    /\ merge_status # "none"

\* C11: the permanent table changes only in the step of a merge that goes
\* through; creating the staging table, every step of process_file and the
\* drop leave it alone, so that a run whose merge did not go through, ended
\* or not, has the permanent table as it was when the run started.
C11_OnlyMergeWrites ==
  /\ [][weather_data' # weather_data =>
         (pc = "merge" /\ merge_status = "none" /\ merge_status' = "ok")]_vars
  /\ []((run > 0 /\ merge_status # "ok") =>
         Cardinality(weather_data) = rows_at_start)

\* a run that staged rows and dropped its staging table has ended with its
\* merge failed or never reached
C11_Witness ==
  /\ RunEnded
  /\ merge_status # "ok"
  /\ drop_status = "ok"
  /\ \E f \in files : task[f].processed_count > 0

\* C13: while a run dispatches, collects and merges, every row of the
\* staging table was staged by that run: the table holds no row of another
\* run, also when the run before it did not drop its staging table.
C13_StagingOwnedByRun ==
  pc \in {"collect", "unwind", "merge"} =>
    \A s \in temp_weather_data : s.rid[1] = run

\* C17: from the dispatch of the files to the merge, existing_records is
\* the set of the keys of the permanent table, which is still as it was
\* when the run started.
C17_IndexIsSnapshot ==
  pc \in {"collect", "unwind", "merge"} =>
    existing_records = {Key(r) : r \in weather_data}

\* C18: a row staged from a line of a file <station>.txt whose three
\* readings are not the sentinel carries the station, the date of field 1
\* and, reading by reading, the raw integer as its count of tenths.
C18_StagedRoundTrip ==
  \A s \in temp_weather_data :
    (/\ Len(s.rid[2]) = 2
     /\ \A i \in 2..4 : RawOf(s)[i].v # Sentinel)
    => /\ s.station_id = s.rid[2][1]
       /\ s.date = ParseDate(RawOf(s)[1])
       /\ s.max_temp = Some(RawOf(s)[2].v)
       /\ s.min_temp = Some(RawOf(s)[3].v)
       /\ s.precipitation = Some(RawOf(s)[4].v)

\* the stage of the run: a stage is held once its step has been done
Stage ==
  IF pc = "idle"
  THEN (IF run = 0 THEN "IDLE"
        ELSE IF outcome = "completed" THEN "DONE" ELSE "FAILED")
  ELSE IF pending_exc # "none" THEN "FAILED"
  ELSE IF pc = "create" THEN "IDLE"
  ELSE IF pc = "list"
  THEN (IF create_status = "ok" THEN "STAGING_CREATED" ELSE "IDLE")
  ELSE IF pc = "collect" THEN "FILES_DISPATCHED"
  ELSE IF pc = "merge" THEN "MERGING"
  ELSE IF merge_status = "ok" THEN "CLEANUP" ELSE "FAILED"

StageOrder ==
  { <<"IDLE", "STAGING_CREATED">>, <<"STAGING_CREATED", "FILES_DISPATCHED">>,
    <<"FILES_DISPATCHED", "MERGING">>, <<"MERGING", "CLEANUP">>,
    <<"CLEANUP", "DONE">>, <<"DONE", "IDLE">>, <<"FAILED", "IDLE">> }

\* C20: a run moves from stage to stage in the order IDLE, STAGING_CREATED,
\* FILES_DISPATCHED, MERGING, CLEANUP, DONE, one stage at a time, or into
\* FAILED; the next run starts from IDLE.
C20_StagesInOrder ==
  [][\/ Stage' = Stage
     \/ Stage' = "FAILED"
     \/ <<Stage, Stage'>> \in StageOrder]_vars

\* the mean of the values of a field of the rows, none of them null
MeanOf(rows, val) == Some(Ratio(Total(rows, val), Cardinality(rows)))

\* C14: calculate_yearly_stats yields one row for each (station_id, year) of
\* the permanent table and no other; its averages are the means of the
\* non-null max_temp and min_temp of the group, null when there is none, and
\* its total is the sum of the non-null precipitation, 0 when there is none.
C14_YearlyStats ==
  apc \in {"calculated", "storing"} =>
    /\ \A r \in weather_data :
         Cardinality({s \in yearly_stats : StatKey(s) = GroupOf(r)}) = 1
    /\ \A s \in yearly_stats :
         LET rows == Group(StatKey(s))
             maxs == {r \in rows : ~r.max_temp.null}
             mins == {r \in rows : ~r.min_temp.null}
             precs == {r \in rows : ~r.precipitation.null}
         IN /\ rows # {}
            /\ s.avg_max_temp =
                 IF maxs = {} THEN NoMean
                 ELSE MeanOf(maxs, [r \in maxs |-> r.max_temp])
            /\ s.avg_min_temp =
                 IF mins = {} THEN NoMean
                 ELSE MeanOf(mins, [r \in mins |-> r.min_temp])
            /\ s.total_precipitation =
                 Some(Total(precs, [r \in precs |-> r.precipitation]))

\* the query has grouped maxima 10.0, null and 20.0 into the average 15.0,
\* next to a group without a single minimum or precipitation
C14_Witness ==
  /\ apc = "calculated"
  /\ \E s \in yearly_stats :
       /\ Cardinality(Group(StatKey(s))) = 3
       /\ \E r \in Group(StatKey(s)) : r.max_temp.null
       /\ s.avg_max_temp = Some([num |-> 150, den |-> 1])

\* C15: a pass of the analysis that main has run to its end leaves every
\* row the statistics table held when the pass started in the table, with
\* the same values.
C15_StatsRowsKept ==
  (apc = "off" /\ returned.kind = "None") =>
    \A r \in stats_at_start : r \in weather_station_yearly_stats

\* C19, as stated: store_yearly_stats returns the count of the inserted and
\* the count of the skipped groups, which add up to the computed groups.
C19_StoreReturnsCounts ==
  (apc = "off" /\ returned.kind # "none") =>
    /\ returned = [kind |-> "counts", inserted |-> Cardinality(new_records),
                   skipped |-> skipped_records]
    /\ Cardinality(new_records) + skipped_records = Cardinality(yearly_stats)

\* C19, amended: store_yearly_stats takes each computed group once, skips it
\* when the table holds a row of its key and adds it otherwise; the added
\* and the skipped groups add up to the groups taken; on its normal end all
\* groups are taken, the added ones are in the table and it returns None.
C19_StoreTakesEachOnce ==
  (apc = "storing" \/ (apc = "off" /\ returned.kind = "None")) =>
    LET taken == yearly_stats \ rest
        before == weather_station_yearly_stats \ new_records
    IN /\ new_records \subseteq taken
       /\ Cardinality(new_records) + skipped_records = Cardinality(taken)
       /\ \A s \in taken :
            s \in new_records <=> ~\E r \in before : StatKey(r) = StatKey(s)
       /\ apc = "off" =>
            /\ rest = {}
            /\ new_records \subseteq weather_station_yearly_stats
            /\ returned = [kind |-> "None"]

\* a call has ended that skipped a group and added another
C19_Witness ==
  /\ apc = "off"
  /\ returned.kind = "None"
  /\ skipped_records > 0
  /\ new_records # {}

\* the records of the store that match the filters of the answered request
Matching ==
  IF response.call = "get_weather_data"
  THEN WeatherQuery(response.station_id, response.date)
  ELSE StatsQuery(response.station_id)

\* C16: the answer to a request of page >= 1 and per_page >= 1 over T
\* matching records has total = T and a data list of
\* min(per_page, max(0, T - (page - 1) * per_page)) records.
C16_PageLength ==
  response.call # "none" =>
    LET T == Cardinality(Matching)
        left == T - (response.page - 1) * response.per_page
        room == IF left < 0 THEN 0 ELSE left
    IN /\ response.total = T
       /\ Len(response.data) =
            IF response.per_page < room THEN response.per_page ELSE room

\* page 2 of 15 records by 10 came with 5 records
C16_Witness ==
  /\ response.call = "get_weather_data"
  /\ response.total = 15
  /\ response.page = 2
  /\ response.per_page = 10
  /\ Len(response.data) = 5

\* C12: when rows have come into the permanent table since the run took its
\* snapshot, the merge of the run, issued over the staging table the run
\* created and with no operation of the run failed by its environment, goes
\* through, keeps every row the table held and leaves one row a key.
C12_MergeAfterRace ==
  [][(/\ pc = "merge" /\ pc' = "drop"
      /\ create_status = "ok"
      /\ faults' = 0
      /\ Cardinality(weather_data) > rows_at_start)
     => /\ merge_status' = "ok"
        /\ weather_data \subseteq weather_data'
        /\ \A r1, r2 \in weather_data' : Key(r1) = Key(r2) => r1 = r2]_vars

\* the lines of file f its process_file call has parsed without error
ParsedLines(f) == {i \in 1..task[f].pos : ValidLine(dir[f][i])}

\* those of them whose key the Duplicate Index holds
DuplicateLines(f) ==
  {i \in ParsedLines(f) :
     <<StationOf(f), ParseDate(StripSplit(dir[f][i])[1])>> \in existing_records}

\* the rows the process_file call of the run on file f has staged
StagedBy(f) == {s \in temp_weather_data : s.rid[1] = run /\ s.rid[2] = f}

\* the line of file f at which the INSERT raised, if it did
InsertRaisedAt(f) ==
  IF task[f].st = "raised" /\ task[f].pos \in ParsedLines(f)
  THEN {task[f].pos} ELSE {}

\* C21, as stated: while the workers and the merge of a run work on the
\* staging table, every parsed line of a file either has its key in the
\* Duplicate Index, is counted as a duplicate and staged no row, or is
\* staged as one row and counted as accepted; the accepted count of a file
\* is the number of rows it staged and no such row has a key of the index.
C21_EachParsedLineCounted ==
  pc \in {"collect", "unwind", "merge"} =>
    \A f \in DOMAIN task :
      /\ task[f].duplicate_count = Cardinality(DuplicateLines(f))
      /\ {s.rid[3] : s \in StagedBy(f)} = ParsedLines(f) \ DuplicateLines(f)
      /\ task[f].processed_count = Cardinality(StagedBy(f))
      /\ \A s \in StagedBy(f) : Key(s) \notin existing_records

\* C21, amended: the same, but for the one line at which the INSERT raised:
\* that line staged no row, changed no count and ended the call.
C21_EachInsertedLineCounted ==
  pc \in {"collect", "unwind", "merge"} =>
    \A f \in DOMAIN task :
      /\ task[f].duplicate_count = Cardinality(DuplicateLines(f))
      /\ {s.rid[3] : s \in StagedBy(f)} =
           (ParsedLines(f) \ DuplicateLines(f)) \ InsertRaisedAt(f)
      /\ task[f].processed_count = Cardinality(StagedBy(f))
      /\ \A s \in StagedBy(f) : Key(s) \notin existing_records
      /\ InsertRaisedAt(f) \cap DuplicateLines(f) = {}

\* a call has staged its first line and was ended by the INSERT of its second
C21_Witness ==
  /\ pc \in {"collect", "unwind"}
  /\ \E f \in DOMAIN task :
       /\ task[f].st = "raised"
       /\ task[f].pos = 2
       /\ ParsedLines(f) = {1, 2}
       /\ task[f].processed_count = 1
       /\ Cardinality(StagedBy(f)) = 1

\* the raw line a staged row was made from, as the file holds it
RawLineOf(s) == dir[s.rid[2]][s.rid[3]]

\* the lines of file f, among those its call has handled, that split on tab
\* into exactly 4 fields
FourFieldLines(f) == {i \in 1..task[f].pos : Len(dir[f][i]) = 4}

\* C22: a row is staged, and a line counted as accepted or duplicate, only
\* from a raw line that splits on tab into exactly 4 fields, empty fields at
\* either end counted; a line of any other field count does not end the call.
C22_OnlyFourFieldLines ==
  /\ \A s \in temp_weather_data : Len(RawLineOf(s)) = 4
  /\ \A f \in DOMAIN task :
       /\ task[f].processed_count + task[f].duplicate_count
            <= Cardinality(FourFieldLines(f))
       /\ (task[f].st = "raised" /\ task[f].pos > 0) =>
            task[f].pos \in FourFieldLines(f)

\* how far a process_file call has come
Progress(t) ==
  IF t.st = "pending" THEN 0 ELSE IF t.st = "running" THEN 1 ELSE 2

\* C23: at most max_workers process_file calls run at a time; the calls of
\* a run are those of the listed .txt files, one call a file; a call is
\* started once, never started again, and takes the lines of its file one
\* after the other.
C23_BoundedPool ==
  /\ [](Cardinality(Running) <= max_workers)
  /\ [](pc \in {"collect", "unwind", "merge"} =>
          /\ files = {f \in DOMAIN dir : IsTxt(f)}
          /\ DOMAIN task = files)
  /\ [][run' = run =>
          \A f \in DOMAIN task \cap DOMAIN task' :
            /\ Progress(task'[f]) >= Progress(task[f])
            /\ task'[f].pos \in {task[f].pos, task[f].pos + 1}
            /\ task'[f].pos # task[f].pos => task[f].st = "running"]_vars

\* four calls are running, one of them past its first line, and the fifth
\* file waits for a free thread
C23_Witness ==
  /\ Cardinality(Running) = max_workers
  /\ \E f \in files : task[f].st = "pending"
  /\ \E f \in Running : task[f].pos = 1

\* C24: a run that was started ends; it ends as completed, with every
\* submitted call resolved and collected, or with an exception raised to
\* the caller, and in both cases after the DROP of the staging table was
\* executed.
C24_RunTerminates ==
  /\ (pc # "idle") ~> (pc = "idle")
  /\ [](RunEnded =>
          /\ drop_status # "none"
          /\ outcome \in {"completed", "CustomException", "SystemExit"}
          /\ outcome = "completed" =>
               /\ collected = files
               /\ \A f \in files : Resolved(f))

\* a run has ended with the SystemExit of a worker, after the other worker
\* had staged its row and the staging table was dropped
C24_Witness ==
  /\ RunEnded
  /\ outcome = "SystemExit"
  /\ drop_status = "ok"
  /\ \E f \in files : task[f].st = "raised"
  /\ \E f \in files : task[f].st = "returned" /\ task[f].processed_count = 1

\* the sum of a count of the process_file calls of the files S
RECURSIVE SumOver(_, _)
SumOver(S, count) ==
  IF S = {} THEN 0
  ELSE LET f == CHOOSE x \in S : TRUE
       IN count[f] + SumOver(S \ {f}, count)

\* C25: a run that has dispatched its files ends as completed, whether or
\* not the processing of one of them failed, and its totals are the sums of
\* the accepted and the duplicate counts of all dispatched files, those of
\* a failed file being its counts up to the failure.
C25_TotalsAreSums ==
  (RunEnded /\ files # {}) =>
    /\ outcome = "completed"
    /\ total_processed =
         SumOver(files, [f \in files |-> task[f].processed_count])
    /\ total_duplicates =
         SumOver(files, [f \in files |-> task[f].duplicate_count])

\* C26: the DROP of the finally block is executed only when every submitted
\* process_file call has ended, also when the SystemExit of a worker ends
\* the run: from the DROP on no call is pending or running, so none inserts
\* into a staging table its run has dropped.
C26_DropAfterAllWorkers ==
  (pc = "drop" \/ (pc = "idle" /\ drop_status # "none")) =>
    \A f \in DOMAIN task : task[f].st \notin {"pending", "running"}

\* the run is about to drop the staging table on the SystemExit of one
\* worker, the other worker having staged a row and returned
C26_Witness ==
  /\ pc = "drop"
  /\ pending_exc = "SystemExit"
  /\ \E f, g \in files :
       /\ task[f].st = "raised"
       /\ task[g].st = "returned"
       /\ task[g].processed_count > 0

\* C27: store_yearly_stats writes to the statistics table in one step, its
\* commit, taken when every group has been handled; the loop leaves the
\* table alone, and a call that ends by an error leaves the table as it was
\* before the call.
C27_StoreAllOrNothing ==
  [][apc = "storing" =>
       IF apc' = "off" /\ returned'.kind = "None"
       THEN /\ rest = {}
            /\ weather_station_yearly_stats' =
                 weather_station_yearly_stats \cup new_records
       ELSE weather_station_yearly_stats' = weather_station_yearly_stats]_vars

\* the first call has ended by an error after it had added a record: the
\* table is as empty as before
C27_Witness ==
  /\ passes = 1
  /\ apc = "off"
  /\ returned.kind = "none"
  /\ new_records # {}
  /\ weather_station_yearly_stats = {}

\* C28: a merge that goes through makes the permanent table grow by the
\* number of distinct keys, among the rows the run has staged, that the
\* table did not hold; the growth is at most the total accepted count of
\* the run, and less when two of the rows the run staged share a key.
C28_GrowthIsNewStagedKeys ==
  [][(pc = "merge" /\ merge_status' = "ok") =>
       LET own == {s \in temp_weather_data : s.rid[1] = run}
           new == {Key(s) : s \in {t \in own : ~Conflicts(weather_data, t)}}
           growth == Cardinality(weather_data') - Cardinality(weather_data)
       IN /\ growth = Cardinality(new)
          /\ growth <= total_processed
          /\ (\E s, t \in own : s # t /\ Key(s) = Key(t)) =>
               growth < total_processed]_vars

====
